---------------------------- MODULE Spec2Model ----------------------------
(***************************************************************************)
(* One Firework of the particle simulation in src/main.cpp: the state      *)
(* machine RISING -> EXPLODED -> (reset) RISING, with its rocket trail     *)
(* particles, its explosion particles and their trail particles.           *)
(*                                                                         *)
(* Numbers.  The program computes in float; the model computes in fixed    *)
(* point:                                                                  *)
(*   life, alpha, random factors : thousandths      (ONE = 1.0)            *)
(*   positions, velocities       : tenths           (LEN = 1.0)            *)
(*   dt                          : milliseconds     (main() derives dt     *)
(*                                 from SDL_GetTicks() / 1000.0)           *)
(*   life decrease rates         : tenths per second                       *)
(* Products are rounded down to the unit of the result.                    *)
(*                                                                         *)
(* rand() is a nondeterministic draw from a small sample of its range.     *)
(* All fireworks of the world receive the same dt and do not interact, so  *)
(* the model follows one of them.                                          *)
(***************************************************************************)
EXTENDS Integers, Sequences, FiniteSets, TLC

VARIABLES
    pos,                 \* Firework::pos    <<x, y, z>>
    vel,                 \* Firework::vel    <<x, y, z>>
    color,               \* Firework::color  <<r, g, b, w>>
    scale,               \* Firework::scale
    exploded,            \* Firework::exploded
    numParticles,        \* Firework::numParticles
    trailParticles,      \* Firework::trailParticles      (sequence of TrailParticle)
    explosionParticles,  \* Firework::explosionParticles  (sequence of ExplosionParticle)
    lastDt,              \* the dt argument of the most recent Firework::update (-1: none yet)
    resetCalls,          \* number of reset() calls made by the most recent constructor/update
    updates,             \* update calls made so far by a fixed-step run (ScenarioSpec)
    config               \* the simulation constants the build was compiled with

vars == <<pos, vel, color, scale, exploded, numParticles, trailParticles,
          explosionParticles, lastDt, resetCalls, updates, config>>

---------------------------------------------------------------------------
(* Units *)
ONE == 1000
LEN == 10
MSEC == 1000
RATE == 10

(* Program constants (in the units above) *)
WORLD_WIDTH == 800
NUM_OUTER_CIRCLE_VERTICES == 50
GRAVITY == <<0, -200 * LEN, 0>>
MIN_PARTICLES == 30
MAX_PARTICLES == 50
NUM_TRAIL_PARTICLES == 15
MIN_SCALE == 1
SCALE_RANGE == 2
MAX_INIT_X_VEL == 20
MIN_INIT_X_VEL == -20
MAX_INIT_Y_VEL == 500
MIN_INIT_Y_VEL == 300
MIN_MAGNITUDE == 20
MAX_MAGNITUDE == 200
EXPLOSION_LIFE_DECREASE_RATE == 5
TRAIL_MIN_DECREASE_RATE == 30
TRAIL_MAX_DECREASE_RATE == 60

\* the sampling ranges and decay rates of the build of main.cpp
ProgramConfig ==
    [MIN_PARTICLES |-> MIN_PARTICLES, MAX_PARTICLES |-> MAX_PARTICLES,
     TRAIL_MIN_DECREASE_RATE |-> TRAIL_MIN_DECREASE_RATE,
     TRAIL_MAX_DECREASE_RATE |-> TRAIL_MAX_DECREASE_RATE]

\* a % b of C++ for a >= 0 and b # 0: the sign of b does not matter
\* (b == 0 is a division by zero; no sampled configuration has it)
CMod(a, b) == IF b > 0 THEN a % b ELSE a % (0 - b)

---------------------------------------------------------------------------
(* Bounds of the model and the samples of the inputs *)

\* The frame time dt of main's loop: 0 (two frames within the same millisecond
\* give deltaTime == 0) or DtUnit milliseconds.
DtUnit == 100
DTs == {0, DtUnit}
PositiveDTs == {d \in DTs : d > 0}

\* The fixed-step runs: a firework launched with vertical velocity 400 is updated
\* with one and the same dt, 0.1 s or 0.25 s, at most MaxScenarioUpdates times.
ScenarioDTs == {100, 250}
ScenarioVelY == 400 * LEN
MaxScenarioUpdates == 42

\* samples of rand()
NumParticlesRand == {0, 19}
PosXRand == {799}
VelXRand == {39}
VelYRand == {0, 100}
ScaleRand == {1}
ColorRand == {ONE}            \* rand() / RAND_MAX, thousandths
FactorRand == {0, ONE}        \* rand() / RAND_MAX, thousandths
JitterRand == {0, 99}
ThetaRand == {0}
MagnitudeRand == {179}
\* (float) rand() / RAND_MAX of the i-th trail particle created, thousandths,
\* chosen so that the rates 3.0, 4.0 and 6.0 occur (the pattern repeats)
RateRand == <<0, 334, ONE>>

---------------------------------------------------------------------------
(* glm::vec3 arithmetic on <<x, y, z>> *)
VecAdd(a, b) == <<a[1] + b[1], a[2] + b[2], a[3] + b[3]>>
VecAddScalar(a, s) == <<a[1] + s, a[2] + s, a[3] + s>>
\* a * (n / d), rounded down
VecScale(a, n, d) == <<(a[1] * n) \div d, (a[2] * n) \div d, (a[3] * n) \div d>>

\* glm::cos / glm::sin of k * (2 pi / NUM_OUTER_CIRCLE_VERTICES), thousandths
COS == <<1000, 992, 969, 930, 876, 809, 729, 637, 536, 426, 309, 187, 63,
         -63, -187, -309, -426, -536, -637, -729, -809, -876, -930, -969, -992,
         -1000, -992, -969, -930, -876, -809, -729, -637, -536, -426, -309, -187, -63,
         63, 187, 309, 426, 536, 637, 729, 809, 876, 930, 969, 992>>
SIN == <<0, 125, 249, 368, 482, 588, 685, 771, 844, 905, 951, 982, 998,
         998, 982, 951, 905, 844, 771, 685, 588, 482, 368, 249, 125,
         0, -125, -249, -368, -482, -588, -685, -771, -844, -905, -951, -982, -998,
         -998, -982, -951, -905, -844, -771, -685, -588, -482, -368, -249, -125>>

\* lifeDecreaseRate * dt, in thousandths of life
Decrease(rate, dt) == (rate * dt * ONE) \div (RATE * MSEC)

\* life * v * dt for a velocity v (tenths per second): a displacement in tenths
LifeVelDt(life, v, dt) == VecScale(v, (life * dt) \div MSEC, ONE)

\* (float) rand() / RAND_MAX * (MAX - MIN) + MIN of the trail decrease rate
LifeDecrease(u) ==
    ((u * (config.TRAIL_MAX_DECREASE_RATE - config.TRAIL_MIN_DECREASE_RATE)) \div ONE)
        + config.TRAIL_MIN_DECREASE_RATE

\* the draw of the i-th trail particle of a collection
RateDraw(i) == RateRand[((i - 1) % Len(RateRand)) + 1]

\* rand() / RAND_MAX * 0.25f + 0.75f, thousandths
VelFactor(u) == ((u * 250) \div ONE) + 750

\* (mutant) the division by 10.0f is missing
JitterUnscaled(r) == ((r % 100) - 50) * LEN

\* ((rand() % 100) - 50) / 10.0f, tenths
Jitter(r) == (r % 100) - 50

---------------------------------------------------------------------------
(* TrailParticle *)

\* TrailParticle::TrailParticle: life starts at 1.0 (Particle::life)
NewTrailParticle(p, v, c, s, lifeDecrease) ==
    [pos |-> p, vel |-> v, color |-> c, scale |-> s, life |-> ONE,
     lifeDecreaseRate |-> lifeDecrease, respawned |-> FALSE]

\* (mutant) alpha is assigned after the decrement instead of before it
TrailParticleUpdateAlphaLast(p, dt, sourceVel, sourceLife) ==
    LET clamped == IF p.life > sourceLife THEN sourceLife ELSE p.life
        newLife == clamped - Decrease(p.lifeDecreaseRate, dt)
    IN  [p EXCEPT !.vel = sourceVel,
                  !.pos = VecAdd(p.pos, LifeVelDt(p.life, sourceVel, dt)),
                  !.color = <<p.color[1], p.color[2], p.color[3], newLife>>,
                  !.life = newLife,
                  !.respawned = FALSE]

\* (mutant) the clamp to sourceLife is missing
TrailParticleUpdateNoClamp(p, dt, sourceVel, sourceLife) ==
    [p EXCEPT !.vel = sourceVel,
              !.pos = VecAdd(p.pos, LifeVelDt(p.life, sourceVel, dt)),
              !.color = <<p.color[1], p.color[2], p.color[3], p.life>>,
              !.life = p.life - Decrease(p.lifeDecreaseRate, dt),
              !.respawned = FALSE]

\* (mutant) color.w is assigned before the clamp to sourceLife
TrailParticleUpdateAlphaBeforeClamp(p, dt, sourceVel, sourceLife) ==
    LET clamped == IF p.life > sourceLife THEN sourceLife ELSE p.life
    IN  [p EXCEPT !.vel = sourceVel,
                  !.pos = VecAdd(p.pos, LifeVelDt(p.life, sourceVel, dt)),
                  !.color = <<p.color[1], p.color[2], p.color[3], p.life>>,
                  !.life = clamped - Decrease(p.lifeDecreaseRate, dt),
                  !.respawned = FALSE]

\* (mutant) the particle moves by its own velocity before taking over sourceVel
TrailParticleUpdateOwnVel(p, dt, sourceVel, sourceLife) ==
    LET clamped == IF p.life > sourceLife THEN sourceLife ELSE p.life
    IN  [p EXCEPT !.vel = sourceVel,
                  !.pos = VecAdd(p.pos, LifeVelDt(p.life, p.vel, dt)),
                  !.color = <<p.color[1], p.color[2], p.color[3], clamped>>,
                  !.life = clamped - Decrease(p.lifeDecreaseRate, dt),
                  !.respawned = FALSE]

\* TrailParticle::update(dt, sourceVel, sourceLife)
TrailParticleUpdate(p, dt, sourceVel, sourceLife) ==
    LET clamped == IF p.life > sourceLife THEN sourceLife ELSE p.life
    IN  [p EXCEPT !.vel = sourceVel,
                  !.pos = VecAdd(p.pos, LifeVelDt(p.life, sourceVel, dt)),
                  !.color = <<p.color[1], p.color[2], p.color[3], clamped>>,
                  !.life = clamped - Decrease(p.lifeDecreaseRate, dt),
                  !.respawned = FALSE]

---------------------------------------------------------------------------
(* ExplosionParticle *)

\* ExplosionParticle::ExplosionParticle
NewExplosionParticle(p, v, c, s) ==
    [pos |-> p, vel |-> v, color |-> c, scale |-> s, life |-> ONE, origVel |-> v,
     trailParticles |->
        [i \in 1..NUM_TRAIL_PARTICLES |->
            NewTrailParticle(p, VecScale(v, 1, 10), c, 1, LifeDecrease(RateDraw(i)))]]

\* (mutant) the respawn forgets p.life = 1.0f
respawnTrailParticleKeepsLife(e, p, r) ==
    [p EXCEPT !.pos = VecAddScalar(e.pos, Jitter(r)),
              !.vel = VecScale(e.vel, 1, 10),
              !.respawned = TRUE]

\* ExplosionParticle::respawnTrailParticle
respawnTrailParticle(e, p, r) ==
    [p EXCEPT !.life = ONE,
              !.pos = VecAddScalar(e.pos, Jitter(r)),
              !.vel = VecScale(e.vel, 1, 10),
              !.respawned = TRUE]

\* the loop body of ExplosionParticle::update for one trail particle
ExplosionTrailStep(e, p, dt, r) ==
    LET u == TrailParticleUpdate(p, dt, e.vel, e.life)
    IN  IF u.life <= 0 THEN respawnTrailParticle(e, u, r) ELSE u

\* (mutant) the faster a particle was launched sideways, the faster it burns out
ExplosionLifeBySpeed(e, dt) ==
    LET speed == IF e.origVel[1] < 0 THEN 0 - e.origVel[1] ELSE e.origVel[1]
    IN  e.life - Decrease(EXPLOSION_LIFE_DECREASE_RATE + (speed \div (10 * LEN)), dt)

\* ExplosionParticle::update(dt): the particle's life after the call
ExplosionLife(e, dt) == e.life - Decrease(EXPLOSION_LIFE_DECREASE_RATE, dt)

\* (mutant) an expired trail particle is removed instead of respawned
ExplosionParticleUpdateDropsExpired(e, dt, r) ==
    LET newVel == VecScale(e.origVel, (e.life * dt) \div MSEC, ONE)
        stepped == [i \in 1..Len(e.trailParticles) |->
                       TrailParticleUpdate(e.trailParticles[i], dt, e.vel, e.life)]
    IN  [e EXCEPT !.trailParticles = SelectSeq(stepped, LAMBDA q : q.life > 0),
                  !.vel = newVel,
                  !.pos = VecAdd(e.pos, newVel),
                  !.color = <<e.color[1], e.color[2], e.color[3], e.life>>,
                  !.life = ExplosionLife(e, dt)]

\* (mutant) the particle updates itself first and its trail particles afterwards
ExplosionParticleUpdateSelfFirst(e, dt, r) ==
    LET newVel == VecScale(e.origVel, (e.life * dt) \div MSEC, ONE)
        self == [e EXCEPT !.vel = newVel,
                          !.pos = VecAdd(e.pos, newVel),
                          !.color = <<e.color[1], e.color[2], e.color[3], e.life>>,
                          !.life = ExplosionLife(e, dt)]
    IN  [self EXCEPT !.trailParticles =
                      [i \in 1..Len(e.trailParticles) |->
                          ExplosionTrailStep(self, e.trailParticles[i], dt, r)]]

\* ExplosionParticle::update(dt)
ExplosionParticleUpdate(e, dt, r) ==
    LET newVel == VecScale(e.origVel, (e.life * dt) \div MSEC, ONE)
    IN  [e EXCEPT !.trailParticles =
                      [i \in 1..Len(e.trailParticles) |->
                          ExplosionTrailStep(e, e.trailParticles[i], dt, r)],
                  !.vel = newVel,
                  !.pos = VecAdd(e.pos, newVel),
                  !.color = <<e.color[1], e.color[2], e.color[3], e.life>>,
                  !.life = ExplosionLife(e, dt)]

---------------------------------------------------------------------------
(* Firework *)

\* Firework::respawnParticle, called with the firework's current pos and vel
respawnParticle(fpos, fvel, p, r, u) ==
    [p EXCEPT !.life = ONE,
              !.pos = VecAddScalar(fpos, Jitter(r)),
              !.vel = VecScale(fvel, VelFactor(u), ONE),
              !.respawned = TRUE]

\* (mutant) the respawn check is p.life < 0
RocketTrailStepStrict(fpos, fvel, p, dt, r, u) ==
    LET q == TrailParticleUpdate(p, dt, fvel, ONE)
    IN  IF q.life < 0 THEN respawnParticle(fpos, fvel, q, r, u) ELSE q

\* the loop body of the rocket branch of Firework::update for one trail particle
RocketTrailStep(fpos, fvel, p, dt, r, u) ==
    LET q == TrailParticleUpdate(p, dt, fvel, ONE)
    IN  IF q.life <= 0 THEN respawnParticle(fpos, fvel, q, r, u) ELSE q

\* Firework::randomiseColor
randomiseColor(cr, cg, cb) ==
    <<((cr * 750) \div ONE) + 250, ((cg * 750) \div ONE) + 250,
      ((cb * 750) \div ONE) + 250, ONE>>

\* Firework::reset: the fields of the firework after reset() with the given draws
reset(rn, rx, rvx, rvy, rs, cr, cg, cb, u) ==
    LET p == <<(rx % WORLD_WIDTH) * LEN, 0, 0>>
        v == <<((rvx % (MAX_INIT_X_VEL - MIN_INIT_X_VEL)) + MIN_INIT_X_VEL) * LEN,
               ((rvy % (MAX_INIT_Y_VEL - MIN_INIT_Y_VEL)) + MIN_INIT_Y_VEL) * LEN,
               0>>
        c == randomiseColor(cr, cg, cb)
    IN  [pos |-> p, vel |-> v, color |-> c,
         scale |-> (rs % SCALE_RANGE) + MIN_SCALE,
         exploded |-> FALSE,
         numParticles |-> CMod(rn, config.MAX_PARTICLES - config.MIN_PARTICLES)
                             + config.MIN_PARTICLES,
         explosionParticles |-> << >>,
         trailParticles |->
            [i \in 1..NUM_TRAIL_PARTICLES |->
                NewTrailParticle(p, VecScale(v, VelFactor(u), ONE), c, 1,
                                 LifeDecrease(RateDraw(i)))]]

\* the draws of one reset()
ResetDraws ==
    [rn : NumParticlesRand, rx : PosXRand, rvx : VelXRand, rvy : VelYRand,
     rs : ScaleRand, cr : ColorRand, cg : ColorRand, cb : ColorRand, u : FactorRand]

\* (mutant) the loop that creates the trail particles stops one short
ResetWithShortTrail(d) ==
    LET f == reset(d.rn, d.rx, d.rvx, d.rvy, d.rs, d.cr, d.cg, d.cb, d.u)
    IN  [f EXCEPT !.trailParticles = SubSeq(f.trailParticles, 1, NUM_TRAIL_PARTICLES - 1)]

\* (mutant) reset() assigns exploded = true
ResetWithFlagSet(d) ==
    LET f == reset(d.rn, d.rx, d.rvx, d.rvy, d.rs, d.cr, d.cg, d.cb, d.u)
    IN  [f EXCEPT !.exploded = TRUE]

\* (mutant) vel.y is rand() % (MAX_INIT_Y_VEL - MIN_INIT_Y_VEL), the minimum not added
ResetWithRawVelY(d) ==
    LET f == reset(d.rn, d.rx, d.rvx, d.rvy, d.rs, d.cr, d.cg, d.cb, d.u)
    IN  [f EXCEPT !.vel = <<f.vel[1], f.vel[2] - MIN_INIT_Y_VEL * LEN, f.vel[3]>>]

ResetWith(d) == reset(d.rn, d.rx, d.rvx, d.rvy, d.rs, d.cr, d.cg, d.cb, d.u)

\* the state of the firework after its fields are replaced by f
Becomes(f) ==
    /\ pos' = f.pos
    /\ vel' = f.vel
    /\ color' = f.color
    /\ scale' = f.scale
    /\ exploded' = f.exploded
    /\ numParticles' = f.numParticles
    /\ trailParticles' = f.trailParticles
    /\ explosionParticles' = f.explosionParticles

\* Firework::Firework
Init ==
    /\ config = ProgramConfig
    /\ \E d \in ResetDraws :
          LET f == ResetWith(d)
          IN  /\ pos = f.pos
              /\ vel = f.vel
              /\ color = f.color
              /\ scale = f.scale
              /\ exploded = f.exploded
              /\ numParticles = f.numParticles
              /\ trailParticles = f.trailParticles
              /\ explosionParticles = f.explosionParticles
    /\ lastDt = -1
    /\ resetCalls = 1
    /\ updates = 0

---------------------------------------------------------------------------
(* Firework::update(dt) *)

\* rocket branch: vel += GRAVITY * dt; pos += vel * dt
RocketVel(dt) == VecAdd(vel, VecScale(GRAVITY, dt, MSEC))
RocketPos(dt) == VecAdd(pos, VecScale(RocketVel(dt), dt, MSEC))

\* rocket branch: the trail particles after the loop over trailParticles
RocketTrail(dt, r, u) ==
    [i \in 1..Len(trailParticles) |->
        RocketTrailStep(RocketPos(dt), RocketVel(dt), trailParticles[i], dt, r, u)]

\* (mutant) the transition waits until vel.y is below -20
ApexLate(v) == v[2] < GRAVITY[2] \div 10

\* (mutant) the transition is taken at vel.y <= 0
ApexAtZero(v) == v[2] <= 0

\* the condition of the RISING -> EXPLODED transition
Apex(v) == v[2] < 0

\* the velocity of the i-th explosion particle: direction rand() % NUM_OUTER_CIRCLE_VERTICES
\* times magnitude rand() % (MAX_MAGNITUDE - MIN_MAGNITUDE) + MIN_MAGNITUDE
ParticleVel(rt, rm) ==
    LET k == rt % NUM_OUTER_CIRCLE_VERTICES
        m == (rm % (MAX_MAGNITUDE - MIN_MAGNITUDE)) + MIN_MAGNITUDE
    IN  <<(COS[k + 1] * m * LEN) \div 1000, (SIN[k + 1] * m * LEN) \div 1000, 0>>

\* (mutant) the loop creates MIN_PARTICLES particles instead of numParticles
CreateMinExplosionParticles(n, p, c, rt, rm, rs) ==
    [i \in 1..MIN_PARTICLES |->
        NewExplosionParticle(p, ParticleVel(rt + i, rm + i), c,
                             (rs % SCALE_RANGE) + MIN_SCALE)]

\* the explosion particles created at the apex; the i-th particle draws rt + i, rm + i
CreateExplosionParticles(n, p, c, rt, rm, rs) ==
    [i \in 1..n |->
        NewExplosionParticle(p, ParticleVel(rt + i, rm + i), c,
                             (rs % SCALE_RANGE) + MIN_SCALE)]

\* rocket branch, vel.y >= 0 after the gravity step: the firework keeps rising
Rise(dt) ==
    /\ ~exploded
    /\ ~Apex(RocketVel(dt))
    /\ lastDt' = dt
    /\ resetCalls' = 0
    /\ vel' = RocketVel(dt)
    /\ pos' = RocketPos(dt)
    /\ \E r \in JitterRand, u \in FactorRand : trailParticles' = RocketTrail(dt, r, u)
    /\ UNCHANGED <<color, scale, exploded, numParticles, explosionParticles>>

\* (mutant) the explosion forgets trailParticles.clear()
ExplodeKeepsTrail(dt) ==
    /\ ~exploded
    /\ Apex(RocketVel(dt))
    /\ lastDt' = dt
    /\ resetCalls' = 0
    /\ vel' = RocketVel(dt)
    /\ pos' = RocketPos(dt)
    /\ exploded' = TRUE
    /\ \E rt \in ThetaRand, rm \in MagnitudeRand, rs \in ScaleRand :
          explosionParticles' =
             CreateExplosionParticles(numParticles, RocketPos(dt), color, rt, rm, rs)
    /\ UNCHANGED <<color, scale, numParticles, trailParticles>>

\* rocket branch, vel.y < 0 after the gravity step: the firework explodes
Explode(dt) ==
    /\ ~exploded
    /\ Apex(RocketVel(dt))
    /\ lastDt' = dt
    /\ resetCalls' = 0
    /\ vel' = RocketVel(dt)
    /\ pos' = RocketPos(dt)
    /\ exploded' = TRUE
    /\ trailParticles' = << >>
    /\ \E rt \in ThetaRand, rm \in MagnitudeRand, rs \in ScaleRand :
          explosionParticles' =
             CreateExplosionParticles(numParticles, RocketPos(dt), color, rt, rm, rs)
    /\ UNCHANGED <<color, scale, numParticles>>

\* explosion branch: every explosion particle after p.update(dt)
UpdatedExplosion(dt, r) ==
    [i \in 1..Len(explosionParticles) |->
        ExplosionParticleUpdate(explosionParticles[i], dt, r)]

\* (mutant) the loop tests p.life < 0
ExpiredStrict(dt) ==
    {i \in 1..Len(explosionParticles) : ExplosionLife(explosionParticles[i], dt) < 0}

\* the explosion particles for which the loop finds p.life <= 0 after p.update(dt)
Expired(dt) ==
    {i \in 1..Len(explosionParticles) : ExplosionLife(explosionParticles[i], dt) <= 0}

\* explosion branch, no particle expired
Burn(dt) ==
    /\ exploded
    /\ Expired(dt) = {}
    /\ lastDt' = dt
    /\ resetCalls' = 0
    /\ \E r \in JitterRand : explosionParticles' = UpdatedExplosion(dt, r)
    /\ UNCHANGED <<pos, vel, color, scale, exploded, numParticles, trailParticles>>

\* reset() clears explosionParticles inside the range-for over it; the loop goes
\* on over the cleared storage up to the end it cached (undefined behaviour).
\* The stale particles carry the life of the expired one, so each of them can
\* trigger another reset(): the number of further calls is anything from none
\* (the loop stops, or the stale update does nothing) to one per stale particle.
StaleResets(n, first) == {0, n - first}

\* explosion branch, some particle expired: reset(); nothing of the explosion
\* particles updated before it outlives the call
Recycle(dt) ==
    /\ exploded
    /\ Expired(dt) # {}
    /\ lastDt' = dt
    /\ LET first == CHOOSE i \in Expired(dt) : \A j \in Expired(dt) : i <= j
       IN  \E more \in StaleResets(Len(explosionParticles), first) :
              resetCalls' = 1 + more
    /\ \E d \in ResetDraws : Becomes(ResetWith(d))

\* Firework::update(dt)
Update(dt) ==
    \/ Rise(dt)
    \/ Explode(dt)
    \/ Burn(dt)
    \/ Recycle(dt)

\* update(dt) of main's loop, for this firework, by the path it takes
TickRise == (\E dt \in DTs : Rise(dt)) /\ UNCHANGED <<updates, config>>
TickExplode == (\E dt \in DTs : Explode(dt)) /\ UNCHANGED <<updates, config>>
TickBurn == (\E dt \in DTs : Burn(dt)) /\ UNCHANGED <<updates, config>>
TickRecycle == (\E dt \in DTs : Recycle(dt)) /\ UNCHANGED <<updates, config>>

Next ==
    \/ TickRise
    \/ TickExplode
    \/ TickBurn
    \/ TickRecycle

Spec == Init /\ [][Next]_vars

---------------------------------------------------------------------------
(* Liveness: main's loop calls update(dt) forever; the frames whose dt is   *)
(* positive never cease.                                                    *)
PositiveTick == (\E dt \in PositiveDTs : Update(dt)) /\ UNCHANGED <<updates, config>>

\* PositiveTick is enabled in every state, so WF_vars(PositiveTick) says that
\* PositiveTick steps never cease; among the steps of Next these are the steps
\* that set lastDt to a positive dt.
PositiveFrame == lastDt' \in PositiveDTs

FairSpec == Init /\ [][Next]_vars /\ WF_vars(PositiveTick)

LiveSpec == Init /\ [][Next]_vars /\ []<><<PositiveFrame>>_vars

---------------------------------------------------------------------------
(* The fixed-step runs: every update call of a run has the same dt.        *)
ScenarioInit == Init /\ vel[2] = ScenarioVelY

ScenarioStep(dt) ==
    /\ updates < MaxScenarioUpdates
    /\ lastDt \in {-1, dt}
    /\ updates' = updates + 1
    /\ UNCHANGED config

ScenarioRise == \E dt \in ScenarioDTs : ScenarioStep(dt) /\ Rise(dt)
ScenarioExplode == \E dt \in ScenarioDTs : ScenarioStep(dt) /\ Explode(dt)
ScenarioBurn == \E dt \in ScenarioDTs : ScenarioStep(dt) /\ Burn(dt)
ScenarioRecycle == \E dt \in ScenarioDTs : ScenarioStep(dt) /\ Recycle(dt)

ScenarioNext ==
    \/ ScenarioRise
    \/ ScenarioExplode
    \/ ScenarioBurn
    \/ ScenarioRecycle

ScenarioSpec == ScenarioInit /\ [][ScenarioNext]_vars

---------------------------------------------------------------------------
(* reset() on its own: the constructor's call and any number of further    *)
(* calls, with draws at both ends of every range and one past the end.     *)
WideResetDraws ==
    [rn : {0, MAX_PARTICLES - MIN_PARTICLES - 1, MAX_PARTICLES - MIN_PARTICLES},
     rx : {0, WORLD_WIDTH - 1, WORLD_WIDTH},
     rvx : {0, MAX_INIT_X_VEL - MIN_INIT_X_VEL - 1, MAX_INIT_X_VEL - MIN_INIT_X_VEL},
     rvy : {0, MAX_INIT_Y_VEL - MIN_INIT_Y_VEL - 1, MAX_INIT_Y_VEL - MIN_INIT_Y_VEL},
     rs : {0, SCALE_RANGE - 1},
     cr : {0, ONE}, cg : {ONE}, cb : {0},
     u : {0, ONE}]

ResetInit ==
    /\ config = ProgramConfig
    /\ \E d \in WideResetDraws :
          LET f == ResetWith(d)
          IN  /\ pos = f.pos
              /\ vel = f.vel
              /\ color = f.color
              /\ scale = f.scale
              /\ exploded = f.exploded
              /\ numParticles = f.numParticles
              /\ trailParticles = f.trailParticles
              /\ explosionParticles = f.explosionParticles
    /\ lastDt = -1
    /\ resetCalls = 1
    /\ updates = 0

ResetCall ==
    /\ resetCalls' = 1
    /\ \E d \in WideResetDraws : Becomes(ResetWith(d))
    /\ UNCHANGED <<lastDt, updates, config>>

ResetSpec == ResetInit /\ [][ResetCall]_vars

---------------------------------------------------------------------------
(* The program from the start of main, for a build with any of the sampled *)
(* configurations: initFireworks constructs the firework, then main's loop *)
(* updates it with a fixed step.                                            *)

\* the build of main.cpp, a build whose particle-count range has min > max,
\* and a build whose trail decay rates are not positive
Configs ==
    {ProgramConfig,
     [ProgramConfig EXCEPT !.MIN_PARTICLES = 31, !.MAX_PARTICLES = 30],
     [ProgramConfig EXCEPT !.TRAIL_MIN_DECREASE_RATE = -30,
                           !.TRAIL_MAX_DECREASE_RATE = 0]}

\* every sampling range has min < max and every decay rate is positive
WellFormed(c) ==
    /\ c.MIN_PARTICLES < c.MAX_PARTICLES
    /\ c.TRAIL_MIN_DECREASE_RATE > 0
    /\ c.TRAIL_MIN_DECREASE_RATE <= c.TRAIL_MAX_DECREASE_RATE

\* a Firework has been constructed (its constructor calls reset())
Constructed == resetCalls > 0 \/ lastDt >= 0

\* main before initFireworks(): the vector of fireworks is empty
ConfigInit ==
    /\ config \in Configs
    /\ pos = <<0, 0, 0>>
    /\ vel = <<0, 0, 0>>
    /\ color = <<0, 0, 0, 0>>
    /\ scale = 0
    /\ exploded = FALSE
    /\ numParticles = 0
    /\ trailParticles = << >>
    /\ explosionParticles = << >>
    /\ lastDt = -1
    /\ resetCalls = 0
    /\ updates = 0

\* initFireworks(): fireworks.push_back(Firework()), whatever the constants are
initFireworks ==
    /\ ~Constructed
    /\ resetCalls' = 1
    /\ \E d \in ResetDraws : Becomes(ResetWith(d))
    /\ UNCHANGED <<lastDt, updates, config>>

ConfigRise == Constructed /\ ScenarioRise
ConfigExplode == Constructed /\ ScenarioExplode
ConfigBurn == Constructed /\ ScenarioBurn
ConfigRecycle == Constructed /\ ScenarioRecycle

ConfigNext ==
    \/ initFireworks
    \/ ConfigRise
    \/ ConfigExplode
    \/ ConfigBurn
    \/ ConfigRecycle

ConfigSpec == ConfigInit /\ [][ConfigNext]_vars

---------------------------------------------------------------------------
(* Steps of Firework::update, told apart by the exploded flag before and    *)
(* after the call.                                                          *)
RocketStep == ~exploded /\ ~exploded' /\ resetCalls' = 0
BurnStep == exploded /\ exploded'

\* every trail particle of every explosion particle satisfies P(e, i)
AllExplosionTrails(P(_, _)) ==
    \A e \in 1..Len(explosionParticles) :
        \A i \in 1..Len(explosionParticles[e].trailParticles) : P(e, i)

---------------------------------------------------------------------------
(* C1: at every tick boundary the firework is either RISING with a nonempty *)
(* trail collection and no explosion particles, or EXPLODED with an empty   *)
(* trail collection and a nonempty explosion collection.                    *)
C1_ExactlyOneShape ==
    \/ ~exploded /\ Len(trailParticles) > 0 /\ Len(explosionParticles) = 0
    \/ exploded /\ Len(trailParticles) = 0 /\ Len(explosionParticles) > 0

\* both shapes occur: an exploded firework that has burnt for a tick
C1_Witness ==
    /\ exploded
    /\ Len(trailParticles) = 0
    /\ Len(explosionParticles) > 0
    /\ explosionParticles[1].life < ONE

---------------------------------------------------------------------------
(* C2 as stated: immediately after TrailParticle::update and after          *)
(* ExplosionParticle::update, color.w equals life.                          *)
C2_AlphaEqualsLife ==
    [][/\ RocketStep =>
            \A i \in 1..Len(trailParticles) :
                LET u == TrailParticleUpdate(trailParticles[i], lastDt', vel', ONE)
                IN  u.color[4] = u.life
       /\ BurnStep =>
            \A e \in 1..Len(explosionParticles) :
                explosionParticles'[e].color[4] = explosionParticles'[e].life]_vars

(* C2 amended: immediately after update, color.w equals the life the        *)
(* particle had before this call's decrement (for a trail particle: after   *)
(* the clamp to sourceLife), that is color.w == life + lifeDecreaseRate*dt. *)
C2_AlphaIsLifeBeforeDecrease ==
    [][/\ RocketStep =>
            \A i \in 1..Len(trailParticles) :
                LET p == trailParticles[i]
                    u == TrailParticleUpdate(p, lastDt', vel', ONE)
                    q == trailParticles'[i]
                IN  /\ u.color[4] = u.life + Decrease(p.lifeDecreaseRate, lastDt')
                    /\ ~q.respawned => q.color[4] = q.life + Decrease(q.lifeDecreaseRate, lastDt')
       /\ BurnStep =>
            \A e \in 1..Len(explosionParticles) :
                LET x == explosionParticles[e]
                    y == explosionParticles'[e]
                IN  /\ y.color[4] = y.life + Decrease(EXPLOSION_LIFE_DECREASE_RATE, lastDt')
                    /\ y.color[4] = x.life
                    /\ \A i \in 1..Len(x.trailParticles) :
                          LET p == x.trailParticles[i]
                              u == TrailParticleUpdate(p, lastDt', x.vel, x.life)
                              q == y.trailParticles[i]
                          IN  /\ u.color[4] = u.life + Decrease(p.lifeDecreaseRate, lastDt')
                              /\ ~q.respawned =>
                                    q.color[4] = q.life + Decrease(q.lifeDecreaseRate, lastDt')]_vars

\* a particle of each kind after an update with dt > 0: alpha is ahead of life
C2_Witness ==
    /\ exploded
    /\ lastDt > 0
    /\ explosionParticles[1].color[4] > explosionParticles[1].life
    /\ \E i \in 1..NUM_TRAIL_PARTICLES :
          LET q == explosionParticles[1].trailParticles[i]
          IN  ~q.respawned /\ q.color[4] > q.life /\ q.color[4] < ONE

---------------------------------------------------------------------------
(* C3 as stated: after its owner has processed it (update, then the respawn *)
(* check), a trail particle's life does not exceed the life of its source,  *)
(* 1.0 for a rocket trail and the owning explosion particle's life (the     *)
(* sourceLife of that tick) for an explosion trail, respawned or not.       *)
C3_LifeAtMostSourceLife ==
    [][/\ RocketStep => \A i \in 1..Len(trailParticles') : trailParticles'[i].life <= ONE
       /\ BurnStep =>
            \A e \in 1..Len(explosionParticles) :
                \A i \in 1..Len(explosionParticles'[e].trailParticles) :
                    explosionParticles'[e].trailParticles[i].life
                        <= explosionParticles[e].life]_vars

(* C3 amended: the bound holds for every rocket trail particle, and for     *)
(* every explosion trail particle that was not respawned in the tick (with  *)
(* respect to the owner's life before and after the owner's own decrement); *)
(* a respawned trail particle has life exactly 1.0, whatever the life of    *)
(* its owner.                                                               *)
C3_LifeAtMostSourceLifeUnlessRespawned ==
    [][/\ RocketStep => \A i \in 1..Len(trailParticles') : trailParticles'[i].life <= ONE
       /\ BurnStep =>
            \A e \in 1..Len(explosionParticles) :
                \A i \in 1..Len(explosionParticles'[e].trailParticles) :
                    LET q == explosionParticles'[e].trailParticles[i]
                    IN  /\ ~q.respawned => /\ q.life <= explosionParticles[e].life
                                           /\ q.life <= explosionParticles'[e].life
                        /\ q.respawned => q.life = ONE]_vars

\* an explosion trail particle respawned above the life of its owner, beside
\* one that was not respawned
C3_Witness ==
    /\ exploded
    /\ \E e \in 1..Len(explosionParticles) :
          \E i, j \in 1..NUM_TRAIL_PARTICLES :
             LET x == explosionParticles[e]
             IN  /\ x.trailParticles[i].respawned
                 /\ x.trailParticles[i].life > x.life + Decrease(EXPLOSION_LIFE_DECREASE_RATE, lastDt)
                 /\ ~x.trailParticles[j].respawned
                 /\ x.trailParticles[j].life < ONE

---------------------------------------------------------------------------
(* C4 as stated: a firework launched with vertical velocity +400 and        *)
(* updated with dt = 0.1 is EXPLODED once 20 updates have been made.        *)
C4_ExplodedWithin20Updates ==
    (lastDt = 100 /\ updates = 20) => exploded

(* C4 amended: it is EXPLODED once 21 updates have been made. The 20th      *)
(* update brings the vertical velocity to 0, and the transition needs       *)
(* vel.y < 0.                                                               *)
C4_ExplodedWithin21Updates ==
    (lastDt = 100 /\ updates = 21) => exploded

\* the 21st update of the run, with the explosion it made
C4_Witness ==
    /\ lastDt = 100
    /\ updates = 21
    /\ exploded
    /\ vel[2] < 0
    /\ Len(explosionParticles) = numParticles

---------------------------------------------------------------------------
(* C5: the explosion collection has numParticles elements whenever the      *)
(* firework is EXPLODED, and an update that does not reset leaves           *)
(* numParticles as it is.                                                   *)
C5_ExplosionSizeIsNumParticles ==
    [][/\ exploded' => Len(explosionParticles') = numParticles'
       /\ resetCalls' = 0 => numParticles' = numParticles]_vars

\* an explosion of the largest sampled size that has burnt for a tick
C5_Witness ==
    /\ exploded
    /\ numParticles = MAX_PARTICLES - 1
    /\ Len(explosionParticles) = numParticles
    /\ explosionParticles[numParticles].life < ONE

---------------------------------------------------------------------------
(* C6: after every reset() the firework is RISING, has no explosion         *)
(* particles and has NUM_TRAIL_PARTICLES fresh trail particles, each with   *)
(* life 1.0 at the firework's new position.                                 *)
C6_ResetShape ==
    resetCalls > 0 =>
        /\ ~exploded
        /\ explosionParticles = << >>
        /\ Len(trailParticles) = NUM_TRAIL_PARTICLES
        /\ \A i \in 1..Len(trailParticles) :
              /\ trailParticles[i].life = ONE
              /\ trailParticles[i].pos = pos
              /\ ~trailParticles[i].respawned

\* a reset made by update (not by the constructor)
C6_Witness ==
    /\ resetCalls > 0
    /\ lastDt > 0
    /\ Len(trailParticles) = NUM_TRAIL_PARTICLES

---------------------------------------------------------------------------
(* C7: every explosion particle owns NUM_TRAIL_PARTICLES trail particles at *)
(* every tick boundary of its life.                                         *)
C7_TrailCountConstant ==
    \A e \in 1..Len(explosionParticles) :
        Len(explosionParticles[e].trailParticles) = NUM_TRAIL_PARTICLES

\* an explosion particle some of whose trail particles were respawned
C7_Witness ==
    /\ exploded
    /\ \E e \in 1..Len(explosionParticles) :
          /\ Len(explosionParticles[e].trailParticles) = NUM_TRAIL_PARTICLES
          /\ \E i \in 1..NUM_TRAIL_PARTICLES :
                explosionParticles[e].trailParticles[i].respawned

---------------------------------------------------------------------------
(* C8: a rocket trail particle with life 1.0 and decrease rate 4.0 that is  *)
(* updated with dt = 0.25 (source life 1.0) leaves TrailParticle::update    *)
(* with life exactly 0 and is respawned in the same tick: at the end of     *)
(* Firework::update its life is 1.0.                                        *)
C8_ZeroLifeIsRespawned ==
    [][\A i \in 1..Len(trailParticles) :
          (/\ RocketStep
           /\ lastDt' = 250
           /\ trailParticles[i].life = ONE
           /\ trailParticles[i].lifeDecreaseRate = 4 * RATE)
          => /\ TrailParticleUpdate(trailParticles[i], 250, vel', ONE).life = 0
             /\ trailParticles'[i].life = ONE
             /\ trailParticles'[i].respawned]_vars

\* such a particle after the update that respawned it
C8_Witness ==
    /\ ~exploded
    /\ lastDt = 250
    /\ \E i \in 1..Len(trailParticles) :
          /\ trailParticles[i].lifeDecreaseRate = 4 * RATE
          /\ trailParticles[i].respawned
          /\ trailParticles[i].life = ONE
          /\ trailParticles[i].color[4] = ONE

---------------------------------------------------------------------------
(* C9: at every tick boundary every trail particle of the active collection *)
(* (the rocket's, or each explosion particle's) has 0 < life <= 1.0.        *)
LifeInRange(p) == p.life > 0 /\ p.life <= ONE

C9_TrailLifePositive ==
    /\ \A i \in 1..Len(trailParticles) : LifeInRange(trailParticles[i])
    /\ \A e \in 1..Len(explosionParticles) :
          \A i \in 1..Len(explosionParticles[e].trailParticles) :
              LifeInRange(explosionParticles[e].trailParticles[i])

\* an explosion trail particle that expired and was respawned in the last tick
C9_Witness ==
    /\ exploded
    /\ lastDt > 0
    /\ \E e \in 1..Len(explosionParticles) : \E i \in 1..NUM_TRAIL_PARTICLES :
          LET q == explosionParticles[e].trailParticles[i]
          IN  q.respawned /\ q.life = ONE /\ q.color[4] < ONE

---------------------------------------------------------------------------
(* C10: when the frames with positive dt never cease, a RISING firework     *)
(* eventually is EXPLODED and an EXPLODED firework eventually is RISING     *)
(* again.                                                                   *)
C10_PhasesAlternate ==
    /\ (~exploded) ~> exploded
    /\ exploded ~> (~exploded)

\* a firework back in RISING after its explosion has expired
C10_Witness ==
    /\ ~exploded
    /\ resetCalls > 0
    /\ lastDt > 0

---------------------------------------------------------------------------
---------------------------------------------------------------------------
(* C12: a firework that is EXPLODED at the start of a tick is RISING, fully *)
(* reset, at the end of the tick if and only if at least one of its         *)
(* explosion particles has life <= 0 after its update in that tick;         *)
(* otherwise it stays EXPLODED with every particle updated.                 *)
C12_ResetIffSomeExpired ==
    [][exploded =>
         LET someExpired ==
               \E e \in 1..Len(explosionParticles) : \E r \in JitterRand :
                  ExplosionParticleUpdate(explosionParticles[e], lastDt', r).life <= 0
         IN  /\ (~exploded') <=> someExpired
             /\ someExpired =>
                   /\ resetCalls' >= 1
                   /\ explosionParticles' = << >>
                   /\ Len(trailParticles') = NUM_TRAIL_PARTICLES
                   /\ \A i \in 1..Len(trailParticles') : trailParticles'[i].life = ONE
             /\ ~someExpired =>
                   /\ resetCalls' = 0
                   /\ \A e \in 1..Len(explosionParticles) :
                         explosionParticles'[e].life =
                            ExplosionLife(explosionParticles[e], lastDt')]_vars

\* the firework right after the tick in which its explosion expired
C12_Witness ==
    /\ ~exploded
    /\ resetCalls >= 1
    /\ lastDt = DtUnit
    /\ explosionParticles = << >>
    /\ \A i \in 1..Len(trailParticles) : trailParticles[i].life = ONE

---------------------------------------------------------------------------
(* C13: a RISING firework becomes EXPLODED in a tick if and only if its     *)
(* vertical velocity after that tick's gravity step (vel += GRAVITY * dt)   *)
(* is strictly negative; so a RISING firework has vel.y >= 0 at every tick  *)
(* boundary, and vel.y == 0 does not trigger the explosion.                 *)
C13_ExplodesIffVelYNegative ==
    [][/\ ~exploded =>
            LET vy == vel[2] + ((GRAVITY[2] * lastDt') \div MSEC)
            IN  /\ vel'[2] = vy
                /\ exploded' <=> vy < 0
       /\ ~exploded' => vel'[2] >= 0]_vars

\* a firework still RISING after the tick that brought vel.y to exactly 0
C13_Witness ==
    /\ ~exploded
    /\ lastDt > 0
    /\ resetCalls = 0
    /\ vel[2] = 0

---------------------------------------------------------------------------
(* C14: ExplosionParticle::update first updates (and respawns) every owned  *)
(* trail particle with the explosion particle's velocity, life and position *)
(* as they were at the start of the tick, and only then computes its own    *)
(* velocity (life * origVel * dt with the life before the decrement),       *)
(* position, alpha and life.                                                *)
C14_TrailsBeforeSelf ==
    [][BurnStep =>
         \A e \in 1..Len(explosionParticles) :
            LET x == explosionParticles[e]
                y == explosionParticles'[e]
                dt == lastDt'
            IN  /\ y.vel = <<(x.origVel[1] * ((x.life * dt) \div MSEC)) \div ONE,
                             (x.origVel[2] * ((x.life * dt) \div MSEC)) \div ONE,
                             (x.origVel[3] * ((x.life * dt) \div MSEC)) \div ONE>>
                /\ y.pos = VecAdd(x.pos, y.vel)
                /\ y.color[4] = x.life
                /\ y.life = x.life - ((EXPLOSION_LIFE_DECREASE_RATE * dt * ONE) \div (RATE * MSEC))
                /\ \A i \in 1..Len(x.trailParticles) :
                      LET p == x.trailParticles[i]
                          q == y.trailParticles[i]
                      IN  /\ q.color[4] = IF p.life > x.life THEN x.life ELSE p.life
                          /\ ~q.respawned =>
                                /\ q.vel = x.vel
                                /\ q.pos = VecAdd(p.pos, LifeVelDt(p.life, x.vel, dt))
                          /\ q.respawned =>
                                /\ q.vel = VecScale(x.vel, 1, 10)
                                /\ \E r \in JitterRand :
                                      q.pos = VecAddScalar(x.pos, Jitter(r))]_vars

\* an explosion particle after its second update: it has slowed down and moved on,
\* a trail particle carries the velocity it had before, another one was respawned
\* at the position it had before
C14_Witness ==
    /\ exploded
    /\ lastDt > 0
    /\ \E e \in 1..Len(explosionParticles) :
          LET y == explosionParticles[e]
          IN  /\ y.color[4] < ONE
              /\ y.vel # <<0, 0, 0>>
              /\ \E i, j \in 1..NUM_TRAIL_PARTICLES :
                    /\ ~y.trailParticles[i].respawned
                    /\ y.trailParticles[i].vel # y.vel
                    /\ y.trailParticles[i].color[4] < y.color[4]
                    /\ y.trailParticles[j].respawned
                    /\ \A r \in JitterRand :
                          y.trailParticles[j].pos # VecAddScalar(y.pos, Jitter(r))

---------------------------------------------------------------------------
(* C15: a trail particle respawned by Firework::respawnParticle or by       *)
(* ExplosionParticle::respawnTrailParticle is placed at the owner's current *)
(* position plus one scalar offset, the same on every axis, and the offset  *)
(* lies in [-5.0, +5.0].                                                    *)
JitterRange == (0 - 5 * LEN)..(5 * LEN)

C15_RespawnWithinJitter ==
    [][/\ RocketStep =>
            \A i \in 1..Len(trailParticles') :
               trailParticles'[i].respawned =>
                  \E s \in JitterRange :
                     trailParticles'[i].pos = <<pos'[1] + s, pos'[2] + s, pos'[3] + s>>
       /\ BurnStep =>
            \A e \in 1..Len(explosionParticles) :
               \A i \in 1..Len(explosionParticles'[e].trailParticles) :
                  LET q == explosionParticles'[e].trailParticles[i]
                      o == explosionParticles[e].pos
                  IN  q.respawned =>
                         \E s \in JitterRange : q.pos = <<o[1] + s, o[2] + s, o[3] + s>>]_vars

\* a rocket trail particle respawned with the offset -5.0 on all three axes
C15_Witness ==
    /\ ~exploded
    /\ lastDt > 0
    /\ \E i \in 1..Len(trailParticles) :
          /\ trailParticles[i].respawned
          /\ trailParticles[i].pos = <<pos[1] - 5 * LEN, pos[2] - 5 * LEN, 0 - 5 * LEN>>

---------------------------------------------------------------------------
(* C16: after every reset() the re-rolled attributes lie in their ranges:   *)
(* pos.y == 0, 0 <= pos.x < WORLD_WIDTH, vel.x in [MIN_INIT_X_VEL,          *)
(* MAX_INIT_X_VEL], vel.y in [MIN_INIT_Y_VEL, MAX_INIT_Y_VEL] (so > 0),     *)
(* numParticles in [MIN_PARTICLES, MAX_PARTICLES] (so >= 1), alpha == 1.    *)
C16_ResetRanges ==
    resetCalls > 0 =>
        /\ pos[2] = 0
        /\ 0 <= pos[1] /\ pos[1] < WORLD_WIDTH * LEN
        /\ MIN_INIT_X_VEL * LEN <= vel[1] /\ vel[1] <= MAX_INIT_X_VEL * LEN
        /\ MIN_INIT_Y_VEL * LEN <= vel[2] /\ vel[2] <= MAX_INIT_Y_VEL * LEN
        /\ vel[2] > 0
        /\ MIN_PARTICLES <= numParticles /\ numParticles <= MAX_PARTICLES
        /\ numParticles >= 1
        /\ color[4] = ONE

\* a reset whose draws are the largest remainders of every range
C16_Witness ==
    /\ resetCalls > 0
    /\ pos = <<(WORLD_WIDTH - 1) * LEN, 0, 0>>
    /\ vel = <<(MAX_INIT_X_VEL - 1) * LEN, (MAX_INIT_Y_VEL - 1) * LEN, 0>>
    /\ numParticles = MAX_PARTICLES - 1
    /\ color = <<250, ONE, 250, ONE>>

---------------------------------------------------------------------------
(* C17: in a tick in which an explosion particle's expiry triggers reset(), *)
(* reset() is invoked exactly once by that Firework::update call: the loop  *)
(* over explosionParticles does not go on over the cleared elements.        *)
C17_ResetOncePerUpdate ==
    resetCalls <= 1

---------------------------------------------------------------------------
(* C18: at every tick boundary while the firework is EXPLODED all of its    *)
(* explosion particles have the same life, which is > 0 and <= 1.0; so for  *)
(* every dt 'some explosion particle expires' and 'all explosion particles  *)
(* expire' coincide.                                                        *)
C18_SharedExplosionLife ==
    exploded =>
        /\ \A e \in 1..Len(explosionParticles) :
              /\ explosionParticles[e].life = explosionParticles[1].life
              /\ explosionParticles[e].life > 0
              /\ explosionParticles[e].life <= ONE
        /\ \A dt \in DTs :
              (\E e \in 1..Len(explosionParticles) :
                  ExplosionLife(explosionParticles[e], dt) <= 0)
              <=> (\A e \in 1..Len(explosionParticles) :
                      ExplosionLife(explosionParticles[e], dt) <= 0)

\* an explosion of the largest sampled size one tick before all of it expires
C18_Witness ==
    /\ exploded
    /\ lastDt > 0
    /\ Len(explosionParticles) = MAX_PARTICLES - 1
    /\ \A e \in 1..Len(explosionParticles) :
          /\ explosionParticles[e].life < ONE
          /\ explosionParticles[e].life = explosionParticles[1].life
          /\ ExplosionLife(explosionParticles[e], DtUnit) <= 0

---------------------------------------------------------------------------
(* C19: immediately after every TrailParticle::update(dt, sourceVel,        *)
(* sourceLife) of a run, color.w is > 0 and <= the sourceLife passed in:    *)
(* 1.0 for a rocket trail, the owning explosion particle's life before its  *)
(* own update for an explosion trail, also in the tick after a respawn.     *)
C19_AlphaWithinSourceLife ==
    [][/\ ~exploded =>
            \A i \in 1..Len(trailParticles) :
               LET u == TrailParticleUpdate(trailParticles[i], lastDt', vel', ONE)
               IN  u.color[4] > 0 /\ u.color[4] <= ONE
       /\ RocketStep =>
            \A i \in 1..Len(trailParticles') :
               trailParticles'[i].color[4] > 0 /\ trailParticles'[i].color[4] <= ONE
       /\ exploded =>
            \A e \in 1..Len(explosionParticles) :
               LET x == explosionParticles[e]
               IN  \A i \in 1..Len(x.trailParticles) :
                      LET u == TrailParticleUpdate(x.trailParticles[i], lastDt', x.vel, x.life)
                      IN  u.color[4] > 0 /\ u.color[4] <= x.life
       /\ BurnStep =>
            \A e \in 1..Len(explosionParticles) :
               \A i \in 1..Len(explosionParticles'[e].trailParticles) :
                  LET a == explosionParticles'[e].trailParticles[i].color[4]
                  IN  a > 0 /\ a <= explosionParticles[e].life]_vars

\* an explosion trail particle in the tick after its respawn: its life was 1.0,
\* its alpha is the life its owner had before that tick
C19_Witness ==
    /\ exploded
    /\ lastDt > 0
    /\ \E e \in 1..Len(explosionParticles) : \E i \in 1..NUM_TRAIL_PARTICLES :
          LET y == explosionParticles[e]
              q == y.trailParticles[i]
          IN  /\ ~q.respawned
              /\ y.color[4] < ONE
              /\ q.color[4] = y.color[4]
              /\ q.life = q.color[4] - Decrease(q.lifeDecreaseRate, lastDt)

---------------------------------------------------------------------------
(* C20: the velocity stored in a trail particle at creation or respawn      *)
(* (owner velocity times a factor in [0.75, 1.0], or times 0.1) does not    *)
(* influence what the particle does later: had the particle been given any  *)
(* other velocity, every following update would produce the same position,  *)
(* life, alpha and velocity, and so the same respawn decision.              *)

\* the velocities a spawn or respawn could have stored instead
SpawnVels(src) ==
    {<<0, 0, 0>>, src, VecScale(src, 1, 10)}
        \cup {VecScale(src, VelFactor(u), ONE) : u \in FactorRand}

\* the fields of a trail particle other than vel
SameButVel(a, b) ==
    /\ a.pos = b.pos
    /\ a.life = b.life
    /\ a.color = b.color
    /\ a.lifeDecreaseRate = b.lifeDecreaseRate

C20_SpawnVelocityIgnored ==
    [][/\ ~exploded =>
            \A i \in 1..Len(trailParticles) : \A v \in SpawnVels(vel) :
               LET p == trailParticles[i]
                   other == TrailParticleUpdate([p EXCEPT !.vel = v], lastDt', vel', ONE)
                   this == TrailParticleUpdate(p, lastDt', vel', ONE)
               IN  /\ SameButVel(other, this)
                   /\ other.vel = this.vel
                   /\ (RocketStep /\ ~trailParticles'[i].respawned) =>
                          /\ SameButVel(other, trailParticles'[i])
                          /\ other.vel = trailParticles'[i].vel
       /\ exploded =>
            \A e \in 1..Len(explosionParticles) :
               LET x == explosionParticles[e]
               IN  \A i \in 1..Len(x.trailParticles) : \A v \in SpawnVels(x.vel) :
                      LET p == x.trailParticles[i]
                          other == TrailParticleUpdate([p EXCEPT !.vel = v], lastDt', x.vel, x.life)
                          this == TrailParticleUpdate(p, lastDt', x.vel, x.life)
                      IN  /\ SameButVel(other, this)
                          /\ other.vel = this.vel
                          /\ (BurnStep /\ ~explosionParticles'[e].trailParticles[i].respawned) =>
                                 /\ SameButVel(other, explosionParticles'[e].trailParticles[i])
                                 /\ other.vel = explosionParticles'[e].trailParticles[i].vel]_vars

\* a rocket whose trail holds a particle respawned in the last tick with a stored
\* velocity slower than the rocket's, beside a particle that has moved since its
\* spawn and carries the rocket's velocity
C20_Witness ==
    /\ ~exploded
    /\ lastDt > 0
    /\ resetCalls = 0
    /\ \E i, j \in 1..Len(trailParticles) :
          /\ trailParticles[i].respawned
          /\ trailParticles[i].vel = VecScale(vel, VelFactor(0), ONE)
          /\ trailParticles[i].vel # vel
          /\ ~trailParticles[j].respawned
          /\ trailParticles[j].vel = vel
          /\ trailParticles[j].pos # pos
          /\ trailParticles[j].life < ONE

=============================================================================
